---------------------------- MODULE Spec2Model ----------------------------
(***************************************************************************)
(* A model of mcp-terminal's session manager (src/src/session.rs):        *)
(* the registry of PTY-backed sessions, the per-session drain threads,    *)
(* the bounded output buffers, the synchronous execute path with its      *)
(* polling timeout, and the output sanitizer.                              *)
(*                                                                         *)
(* Bytes of a process's output are represented by their offset in the     *)
(* process's output stream (1, 2, 3, ...), so that every byte has an      *)
(* identity; the character at an offset is given by ProcStream.           *)
(***************************************************************************)
EXTENDS Integers, Sequences, FiniteSets, TLC

\* ------------------------------------------------------------------ bounds

\* Number of concurrent caller threads of the SessionManager.
NumThreads == 2
\* Number of session ids that are ever generated (create_session calls that
\* get as far as spawning the shell).
MaxIds == 2
\* Number of bytes the sessions' processes write to their terminals, in all.
MaxOut == 1
\* The same, where one session's buffer is followed alone.
MaxBufOut == 4
\* Number of bytes send_input calls write to the PTY writers, in all.
MaxWritten == 1
\* The same, where the writes of concurrent send_input calls are followed.
MaxSent == 4
\* Number of bytes the command run by execute writes to its terminal.
MaxExecOut == 5
\* Largest value of the clock of wait_with_timeout, in poll intervals.
MaxTime == 3
\* Number of pieces (characters or whole CSI sequences) of a text handed to
\* the sanitizer.
MaxToks == 5

\* ------------------------------------------------- program constants (scaled)

\* session.rs:10 MAX_BUFFER_SIZE = 1024 * 1024, scaled down.
MAX_BUFFER_SIZE == 2
\* session.rs:302 the 2 * 1024 * 1024 cap of execute's buffer.
EXEC_BUFFER_SIZE == 2 * MAX_BUFFER_SIZE
\* session.rs:115 and :294, the 4096-byte read buffer, scaled down (it stays
\* no larger than the buffer capacities, as in the program).
READ_BUF_SIZE == 2

Threads == 1..NumThreads
Ids == 1..MaxIds

\* --------------------------------------------------------------- characters

ESC == "ESC"
BEL == "BEL"
CR == "CR"
LF == "LF"
\* The byte 0x80 alone is not valid UTF-8.
BadByte == "x80"
\* U+FFFD, what from_utf8_lossy puts in the place of an invalid byte.
Replacement == "U+FFFD"

Letters == {"a", "b", "H", "m"}

\* char::is_ascii_alphabetic
IsAsciiAlphabetic(c) == c \in Letters

\* String::from_utf8_lossy on a byte sequence: invalid bytes become U+FFFD.
FromUtf8Lossy(bytes) ==
    [i \in 1..Len(bytes) |-> IF bytes[i] = BadByte THEN Replacement ELSE bytes[i]]

\* A skip that takes the first byte after ESC [ for the final one.
SkipCsiShort(in, i) == IF i > Len(in) THEN i ELSE i + 1

\* The position after a CSI sequence whose parameter bytes start at i
\* (session.rs:374-379): consume up to and including the first ASCII letter.
RECURSIVE SkipCsi(_, _)
SkipCsi(in, i) ==
    IF i > Len(in) THEN i
    ELSE IF IsAsciiAlphabetic(in[i]) \/ in[i] = "H" \/ in[i] = "J" \/ in[i] = "K"
         THEN i + 1
         ELSE SkipCsi(in, i + 1)

\* The position after an OSC sequence whose payload starts at i
\* (session.rs:383-394): consume up to and including BEL, or up to an ESC and
\* the backslash that follows it, if one does.
RECURSIVE SkipOsc(_, _)
SkipOsc(in, i) ==
    IF i > Len(in) THEN i
    ELSE IF in[i] = BEL THEN i + 1
    ELSE IF in[i] = ESC
         THEN IF i + 1 <= Len(in) /\ in[i + 1] = "\\" THEN i + 2 ELSE i + 1
    ELSE SkipOsc(in, i + 1)

\* strip_ansi_escapes (session.rs:363-409), from position i on.
RECURSIVE StripFrom(_, _)
StripFrom(in, i) ==
    IF i > Len(in) THEN <<>>
    ELSE IF in[i] = ESC
         THEN IF i + 1 <= Len(in)
              THEN IF in[i + 1] = "[" THEN StripFrom(in, SkipCsi(in, i + 2))
                   ELSE IF in[i + 1] = "]" THEN StripFrom(in, SkipOsc(in, i + 2))
                   ELSE IF in[i + 1] = "(" \/ in[i + 1] = ")"
                        THEN StripFrom(in, i + 3)
                   ELSE StripFrom(in, i + 1)
              ELSE <<>>
    ELSE IF in[i] = CR THEN StripFrom(in, i + 1)
    ELSE <<in[i]>> \o StripFrom(in, i + 1)

strip_ansi_escapes(input) == StripFrom(input, 1)

\* str::lines: the text split at line feeds; a final empty line is no line.
RECURSIVE SplitLF(_, _, _)
SplitLF(text, i, cur) ==
    IF i > Len(text) THEN <<cur>>
    ELSE IF text[i] = LF THEN <<cur>> \o SplitLF(text, i + 1, <<>>)
    ELSE SplitLF(text, i + 1, Append(cur, text[i]))

StrLines(text) ==
    LET parts == SplitLF(text, 1, <<>>)
    IN  IF parts[Len(parts)] = <<>> THEN SubSeq(parts, 1, Len(parts) - 1) ELSE parts

\* [&str]::join("\n")
RECURSIVE JoinLF(_)
JoinLF(lines) ==
    IF lines = <<>> THEN <<>>
    ELSE IF Len(lines) = 1 THEN lines[1]
    ELSE lines[1] \o <<LF>> \o JoinLF(Tail(lines))

\* usize::saturating_sub
SaturatingSub(a, b) == IF a >= b THEN a - b ELSE 0

\* Option<u32>: None is the empty tuple, Some(n) is <<n>>.
NoLimit == <<>>
Some(n) == <<n>>

\* read_output's optional limit to the last max lines (session.rs:202-208).
LimitLines(cleaned, max) ==
    IF max = NoLimit THEN cleaned
    ELSE LET lines == StrLines(cleaned)
             start == SaturatingSub(Len(lines), max[1])
         IN  JoinLF(SubSeq(lines, start + 1, Len(lines)))


\* ------------------------------------------------------------------- state

VARIABLES
    \* SessionManager.sessions: the registry, a map from session id to the
    \* session's metadata (the map's domain is the set of registered ids).
    sessions,
    \* The holder of the registry mutex.
    regLock,
    \* The next session id (Uuid::new_v4 never repeats an id).
    nextId,
    \* Per session: SessionInner.output and its mutex.
    output, outLock,
    \* Per session: SessionInner.is_alive. Its mutex is held only inside the
    \* one statement that reads or writes the flag, which is one step here.
    is_alive,
    \* Per session: the PTY master ("none", "open", "released") and the shell
    \* process on the slave side ("none", "running", "exited" on its own,
    \* "hungup" by the release of the master).
    master, proc,
    \* Per session: bytes the process has written to its terminal, and bytes
    \* the drain thread has read from the master.
    emitted, rpos,
    \* Per session: the drain thread's position and the chunk it read.
    drainPc, chunk,
    \* Per session: the bytes written to the PTY writer.
    written,
    \* Per caller thread: position, the call in progress and its locals.
    pc, call, local,
    \* The value returned by the step just taken, with the returning thread,
    \* when that step was a return (NoRet after any other step).
    ret,
    \* History, per session: ids closed so far; the raw bytes taken by
    \* read_output calls, in order; the bytes appended since the last take;
    \* the bytes trimmed from the front of the buffer; whether the drain
    \* thread appended since the last take; the ids for which a read_output
    \* reported is_alive = false.
    closed, taken, pending, evicted, dirty, final

sessionVars == <<sessions, regLock, nextId, output, outLock, is_alive,
                 master, proc, emitted, rpos, drainPc, chunk, written>>
threadVars == <<pc, call, local>>
historyVars == <<closed, taken, pending, evicted, dirty, final>>

VARIABLES
    \* The execute call's position and the value it returned.
    exPc, exRet,
    \* The timeout, the time elapsed since wait_with_timeout started (in poll
    \* intervals) and what wait_with_timeout returned.
    exTimeout, exElapsed, exWait,
    \* The child ("none", "running", "exited", "killed"), its exit code, and
    \* whether a process it started still holds the slave side of the PTY.
    exChild, exCode, exOrphan,
    \* The throwaway PTY's master ("none", "open", "released").
    exMaster,
    \* Bytes the command has written, bytes the reader thread has read, the
    \* local buffer and its mutex, the reader thread's position and chunk.
    exEmitted, exRpos, exOut, exOutLock, exDrainPc, exChunk,
    \* History: whether child.kill() was called.
    exKilled

execVars == <<exPc, exRet, exTimeout, exElapsed, exWait, exChild, exCode, exOrphan,
              exMaster, exEmitted, exRpos, exOut, exOutLock, exDrainPc, exChunk, exKilled>>

VARIABLES
    \* A text handed to strip_ansi_escapes: the pieces it is made of and the
    \* text itself; what the function returned; and whether it was called.
    sanToks, sanIn, sanOut, sanPc

textVars == <<sanToks, sanIn, sanOut, sanPc>>


\* Lock holders.
Free == <<>>
ByThread(t) == <<"thread", t>>
ByDrain(s) == <<"drain", s>>

NoProject == "None"
Projects == {NoProject, "x"}

NoCall == [op |-> "none"]
NoRet == [op |-> "none"]
NoLocal == [alive |-> TRUE, todo |-> {}, acc |-> {}, wi |-> 0]

\* The character at an offset of a session process's output stream.
ProcStream(k) ==
    CASE k % 4 = 1 -> "a"
      [] k % 4 = 2 -> LF
      [] k % 4 = 3 -> CR
      [] OTHER -> "b"

BytesOf(raw) == [i \in 1..Len(raw) |-> ProcStream(raw[i])]

\* The offsets a+1 .. a+n, in order.
Range(a, n) == [i \in 1..n |-> a + i]

Min(a, b) == IF a <= b THEN a ELSE b

\* The sum of a function's values.
RECURSIVE SumUpTo(_, _)
SumUpTo(f, n) == IF n = 0 THEN 0 ELSE f[n] + SumUpTo(f, n - 1)
SumOver(f) == SumUpTo(f, MaxIds)

InitSessions ==
    /\ sessions = << >>
    /\ regLock = Free
    /\ nextId = 1
    /\ output = [s \in Ids |-> <<>>]
    /\ outLock = [s \in Ids |-> Free]
    /\ is_alive = [s \in Ids |-> TRUE]
    /\ master = [s \in Ids |-> "none"]
    /\ proc = [s \in Ids |-> "none"]
    /\ emitted = [s \in Ids |-> 0]
    /\ rpos = [s \in Ids |-> 0]
    /\ drainPc = [s \in Ids |-> "none"]
    /\ chunk = [s \in Ids |-> <<>>]
    /\ written = [s \in Ids |-> <<>>]
    /\ pc = [t \in Threads |-> "idle"]
    /\ call = [t \in Threads |-> NoCall]
    /\ local = [t \in Threads |-> NoLocal]
    /\ ret = NoRet
    /\ closed = {}
    /\ taken = [s \in Ids |-> <<>>]
    /\ pending = [s \in Ids |-> <<>>]
    /\ evicted = [s \in Ids |-> {}]
    /\ dirty = [s \in Ids |-> FALSE]
    /\ final = {}

\* A removal that empties the map.
MapClear(m, k) == << >>

\* HashMap::insert and HashMap::remove on the registry.
MapInsert(m, k, v) == [i \in DOMAIN m \cup {k} |-> IF i = k THEN v ELSE m[i]]
MapRemove(m, k) == [i \in DOMAIN m \ {k} |-> m[i]]

\* A caller thread returns: it goes idle with the returned value.
Return(t, value) ==
    /\ pc' = [pc EXCEPT ![t] = "idle"]
    /\ call' = [call EXCEPT ![t] = NoCall]
    /\ local' = [local EXCEPT ![t] = NoLocal]
    /\ ret' = value @@ [t |-> t]

\* A caller thread moves on inside a call.
Goto(t, where) ==
    /\ pc' = [pc EXCEPT ![t] = where]
    /\ ret' = NoRet
    /\ UNCHANGED call

\* --------------------------------------------------------- create_session

\* An id generator that hands out the id of a closed session again.
ReusedId == IF closed # {} THEN CHOOSE i \in closed : TRUE ELSE nextId

\* session.rs:140: Uuid::new_v4(), an id that was never used before.
NewId == nextId

\* session.rs:65-138: the PTY is opened, the shell spawned, the writer and
\* reader taken, the buffer and the liveness flag created and the drain
\* thread started. The session is not in the registry yet.
CreateSpawn(t, project) ==
    /\ pc[t] = "idle"
    /\ nextId <= MaxIds
    /\ LET id == NewId IN
        /\ nextId' = nextId + 1
        /\ master' = [master EXCEPT ![id] = "open"]
        /\ proc' = [proc EXCEPT ![id] = "running"]
        /\ output' = [output EXCEPT ![id] = <<>>]
        /\ is_alive' = [is_alive EXCEPT ![id] = TRUE]
        /\ drainPc' = [drainPc EXCEPT ![id] = "read"]
        /\ pc' = [pc EXCEPT ![t] = "create_insert"]
        /\ call' = [call EXCEPT ![t] = [op |-> "create_session", id |-> id, project |-> project]]
        /\ ret' = NoRet
    /\ UNCHANGED <<sessions, regLock, outLock, emitted, rpos, chunk,
                   written, local, historyVars>>
    /\ UNCHANGED <<execVars, textVars>>

\* session.rs:74, 93, 101, 106: opening the PTY, spawning the shell or taking
\* the writer or the reader fails; create_session returns the error and
\* nothing is registered.
CreateFail(t) ==
    /\ pc[t] = "idle"
    /\ Return(t, [op |-> "create_session", res |-> "PtyError"])
    /\ UNCHANGED <<sessionVars, historyVars>>
    /\ UNCHANGED <<execVars, textVars>>

\* session.rs:140-160: the id is generated and the session inserted under the
\* registry lock.
CreateInsert(t) ==
    /\ pc[t] = "create_insert"
    /\ regLock = Free
    /\ sessions' = MapInsert(sessions, call[t].id, [project |-> call[t].project])
    /\ Return(t, [op |-> "create_session", res |-> "Ok", id |-> call[t].id])
    /\ UNCHANGED <<regLock, nextId, output, outLock, is_alive, master, proc,
                   emitted, rpos, drainPc, chunk, written, historyVars>>
    /\ UNCHANGED <<execVars, textVars>>

\* ------------------------------------------------------------- send_input

\* Bytes of an input are identified by the calling thread and their position.
InputLens == {1, 2}

\* A lookup that lets go of the registry lock before the write.
SendLookupNoLock(t, id, len, max) ==
    /\ pc[t] = "idle"
    /\ \/ /\ id \notin DOMAIN sessions
          /\ Return(t, [op |-> "send_input", id |-> id, res |-> "NotFound",
                        wasClosed |-> id \in closed,
                        neverReg |-> id \notin DOMAIN sessions \cup closed])
       \/ /\ id \in DOMAIN sessions
          /\ SumOver([s \in Ids |-> Len(written[s])]) + len <= max
          /\ pc' = [pc EXCEPT ![t] = "send_write"]
          /\ call' = [call EXCEPT ![t] = [op |-> "send_input", id |-> id, len |-> len,
                                          wasClosed |-> id \in closed,
                                          neverReg |-> FALSE]]
          /\ ret' = NoRet
          /\ UNCHANGED local
    /\ UNCHANGED <<sessions, regLock, nextId, output, outLock, is_alive, master, proc,
                   emitted, rpos, drainPc, chunk, written, historyVars>>
    /\ UNCHANGED <<execVars, textVars>>

\* session.rs:165-168: the registry is locked and the session looked up. An
\* unknown id returns NotFound (the guard is dropped on return); otherwise
\* the call goes on to write, still holding the registry lock.
SendLookup(t, id, len, max) ==
    /\ pc[t] = "idle"
    /\ regLock = Free
    /\ \/ /\ id \notin DOMAIN sessions
          /\ Return(t, [op |-> "send_input", id |-> id, res |-> "NotFound",
                        wasClosed |-> id \in closed,
                        neverReg |-> id \notin DOMAIN sessions \cup closed])
          /\ UNCHANGED regLock
       \/ /\ id \in DOMAIN sessions
          /\ SumOver([s \in Ids |-> Len(written[s])]) + len <= max
          /\ regLock' = ByThread(t)
          /\ pc' = [pc EXCEPT ![t] = "send_write"]
          /\ call' = [call EXCEPT ![t] = [op |-> "send_input", id |-> id, len |-> len,
                                          wasClosed |-> id \in closed,
                        neverReg |-> id \notin DOMAIN sessions \cup closed]]
          /\ ret' = NoRet
          /\ UNCHANGED local
    /\ UNCHANGED <<sessions, nextId, output, outLock, is_alive, master, proc,
                   emitted, rpos, drainPc, chunk, written, historyVars>>
    /\ UNCHANGED <<execVars, textVars>>

\* session.rs:170-174: write_all writes the input to the PTY writer, byte
\* after byte, or fails (the process is gone).
SendWrite(t) ==
    /\ pc[t] = "send_write"
    /\ LET id == call[t].id IN
       \/ /\ local[t].wi < call[t].len
          /\ written' = [written EXCEPT ![id] = Append(@, <<t, local[t].wi + 1>>)]
          /\ local' = [local EXCEPT ![t].wi = @ + 1]
          /\ Goto(t, "send_write")
          /\ UNCHANGED regLock
       \/ /\ local[t].wi = call[t].len
          /\ Goto(t, "send_flush")
          /\ UNCHANGED <<written, local, regLock>>
       \/ /\ proc[id] # "running"
          /\ regLock' = Free
          /\ Return(t, [op |-> "send_input", id |-> id, res |-> "IoError",
                        wasClosed |-> call[t].wasClosed,
                        neverReg |-> call[t].neverReg])
          /\ UNCHANGED written
    /\ UNCHANGED <<sessions, nextId, output, outLock, is_alive, master, proc,
                   emitted, rpos, drainPc, chunk, historyVars>>
    /\ UNCHANGED <<execVars, textVars>>

\* session.rs:176-182: flush, then return; the registry guard is dropped.
SendFlush(t) ==
    /\ pc[t] = "send_flush"
    /\ regLock' = Free
    /\ \/ Return(t, [op |-> "send_input", id |-> call[t].id, res |-> "Ok",
                     wasClosed |-> call[t].wasClosed,
                        neverReg |-> call[t].neverReg])
       \/ /\ proc[call[t].id] # "running"
          /\ Return(t, [op |-> "send_input", id |-> call[t].id, res |-> "IoError",
                        wasClosed |-> call[t].wasClosed,
                        neverReg |-> call[t].neverReg])
    /\ UNCHANGED <<sessions, nextId, output, outLock, is_alive, master, proc,
                   emitted, rpos, drainPc, chunk, written, historyVars>>
    /\ UNCHANGED <<execVars, textVars>>

\* ------------------------------------------------------------ read_output

MaxLinesArgs == {NoLimit, Some(1)}

\* session.rs:187-190: lock the registry and look the session up.
ReadLookup(t, id, max) ==
    /\ pc[t] = "idle"
    /\ regLock = Free
    /\ \/ /\ id \notin DOMAIN sessions
          /\ Return(t, [op |-> "read_output", id |-> id, res |-> "NotFound",
                        wasClosed |-> id \in closed,
                        neverReg |-> id \notin DOMAIN sessions \cup closed, drainDone |-> FALSE])
          /\ UNCHANGED regLock
       \/ /\ id \in DOMAIN sessions
          /\ regLock' = ByThread(t)
          /\ pc' = [pc EXCEPT ![t] = "read_lock_out"]
          /\ call' = [call EXCEPT ![t] = [op |-> "read_output", id |-> id, max |-> max,
                                          wasClosed |-> id \in closed,
                        neverReg |-> id \notin DOMAIN sessions \cup closed,
                                          drainDone |-> drainPc[id] = "done"]]
          /\ ret' = NoRet
          /\ UNCHANGED local
    /\ UNCHANGED <<sessions, nextId, output, outLock, is_alive, master, proc,
                   emitted, rpos, drainPc, chunk, written, historyVars>>
    /\ UNCHANGED <<execVars, textVars>>

\* session.rs:192: lock the session's buffer.
ReadLockOut(t) ==
    /\ pc[t] = "read_lock_out"
    /\ outLock[call[t].id] = Free
    /\ outLock' = [outLock EXCEPT ![call[t].id] = ByThread(t)]
    /\ Goto(t, "read_alive")
    /\ UNCHANGED <<sessions, regLock, nextId, output, is_alive, master, proc,
                   emitted, rpos, drainPc, chunk, written, local, historyVars>>
    /\ UNCHANGED <<execVars, textVars>>

\* session.rs:193: lock the liveness flag, copy it, and unlock it at the end
\* of the statement.
ReadAlive(t) ==
    /\ pc[t] = "read_alive"
    /\ local' = [local EXCEPT ![t].alive = is_alive[call[t].id]]
    /\ Goto(t, "read_take")
    /\ UNCHANGED <<sessions, regLock, nextId, output, outLock, is_alive, master, proc,
                   emitted, rpos, drainPc, chunk, written, historyVars>>
    /\ UNCHANGED <<execVars, textVars>>

\* A read that copies the buffer and leaves it as it is.
MemKeep(buf) == buf

\* session.rs:195: what std::mem::take leaves in the buffer it takes from.
MemTake(buf) == <<>>

\* session.rs:195-210: take the buffer, decode, sanitize, limit the lines and
\* return; the buffer guard and the registry guard are dropped.
ReadTake(t) ==
    /\ pc[t] = "read_take"
    /\ LET id == call[t].id
           raw == output[id]
           text == FromUtf8Lossy(BytesOf(raw))
           cleaned == strip_ansi_escapes(text)
       IN
        /\ output' = [output EXCEPT ![id] = MemTake(raw)]
        /\ outLock' = [outLock EXCEPT ![id] = Free]
        /\ regLock' = Free
        /\ taken' = [taken EXCEPT ![id] = @ \o raw]
        /\ pending' = [pending EXCEPT ![id] = <<>>]
        /\ dirty' = [dirty EXCEPT ![id] = FALSE]
        /\ final' = IF local[t].alive THEN final ELSE final \cup {id}
        /\ Return(t, [op |-> "read_output", id |-> id, res |-> "Ok",
                      text |-> LimitLines(cleaned, call[t].max),
                      max |-> call[t].max,
                      wasFinal |-> id \in final,
                      alive |-> local[t].alive,
                      raw |-> raw,
                      wasClosed |-> call[t].wasClosed,
                        neverReg |-> call[t].neverReg,
                      drainDone |-> call[t].drainDone,
                      pend |-> pending[id],
                      wasDirty |-> dirty[id]])
    /\ UNCHANGED <<sessions, nextId, is_alive, master, proc,
                   emitted, rpos, drainPc, chunk, written, closed, evicted>>
    /\ UNCHANGED <<execVars, textVars>>

\* ---------------------------------------------------------- close_session

\* A close that takes the session out of the registry and keeps it alive.
LeakSession(m, id) == m

\* session.rs:216-221: the removed session is dropped at the end of
\* close_session, and its PTY master with it.
DropSession(m, id) == [m EXCEPT ![id] = "released"]

\* session.rs:215-221: lock the registry and remove the session. Dropping the
\* removed session releases the PTY master and the writer and detaches the
\* drain thread; the buffer and the flag live on with the drain thread.
CloseSession(t, id) ==
    /\ pc[t] = "idle"
    /\ regLock = Free
    /\ \/ /\ id \notin DOMAIN sessions
          /\ Return(t, [op |-> "close_session", id |-> id, res |-> "NotFound",
                        wasClosed |-> id \in closed,
                        neverReg |-> id \notin DOMAIN sessions \cup closed])
          /\ UNCHANGED <<sessions, master, closed>>
       \/ /\ id \in DOMAIN sessions
          /\ sessions' = MapRemove(sessions, id)
          /\ master' = DropSession(master, id)
          /\ closed' = closed \cup {id}
          /\ Return(t, [op |-> "close_session", id |-> id, res |-> "Ok",
                        wasClosed |-> id \in closed,
                        neverReg |-> id \notin DOMAIN sessions \cup closed])
    /\ UNCHANGED <<regLock, nextId, output, outLock, is_alive, proc,
                   emitted, rpos, drainPc, chunk, written, taken, pending, evicted, dirty, final>>
    /\ UNCHANGED <<execVars, textVars>>

\* ---------------------------------------------------------- list_sessions

NoFilter == <<>>
Filters == {NoFilter, <<"x">>}

\* A filter that lets every session pass.
MatchesAny(filter, session) == TRUE

\* session.rs:229-235: the filter of list_sessions.
Matches(filter, session) == filter = NoFilter \/ session.project = filter[1]

\* session.rs:226-235: lock the registry; the iterator will visit the sessions
\* that pass the filter, in the map's order.
ListStart(t, filter) ==
    /\ pc[t] = "idle"
    /\ regLock = Free
    /\ regLock' = ByThread(t)
    /\ pc' = [pc EXCEPT ![t] = "list_iter"]
    /\ call' = [call EXCEPT ![t] = [op |-> "list_sessions", filter |-> filter,
                                    stopped |-> {s \in Ids : drainPc[s] = "done"}]]
    /\ local' = [local EXCEPT ![t].todo = {s \in DOMAIN sessions : Matches(filter, sessions[s])},
                              ![t].acc = {}]
    /\ ret' = NoRet
    /\ UNCHANGED <<sessions, nextId, output, outLock, is_alive, master, proc,
                   emitted, rpos, drainPc, chunk, written, historyVars>>
    /\ UNCHANGED <<execVars, textVars>>

\* session.rs:236-242: the iterator's next session: its liveness flag is
\* locked, copied into the session's SessionInfo and unlocked.
ListAlive(t) ==
    /\ pc[t] = "list_iter"
    /\ \E s \in local[t].todo :
        local' = [local EXCEPT
                    ![t].acc = @ \cup {[session_id |-> s,
                                        project |-> sessions[s].project,
                                        is_alive |-> is_alive[s]]},
                    ![t].todo = @ \ {s}]
    /\ Goto(t, "list_iter")
    /\ UNCHANGED <<sessions, regLock, nextId, output, outLock, is_alive, master, proc,
                   emitted, rpos, drainPc, chunk, written, historyVars>>
    /\ UNCHANGED <<execVars, textVars>>

\* session.rs:243-244: the iterator is exhausted; the collected list is
\* returned and the registry guard dropped.
ListDone(t) ==
    /\ pc[t] = "list_iter"
    /\ local[t].todo = {}
    /\ regLock' = Free
    /\ Return(t, [op |-> "list_sessions", filter |-> call[t].filter, res |-> "Ok",
                  list |-> local[t].acc,
                  registered |-> sessions,
                  stopped |-> call[t].stopped])
    /\ UNCHANGED <<sessions, nextId, output, outLock, is_alive, master, proc,
                   emitted, rpos, drainPc, chunk, written, historyVars>>
    /\ UNCHANGED <<execVars, textVars>>

\* ----------------------------------------------------------- drain thread

Avail(s) == emitted[s] - rpos[s]

\* A drain thread that takes a read of n > 0 bytes for the end of the stream.
DrainReadOkMarksDead(s) ==
    /\ drainPc[s] = "read"
    /\ \E n \in 1..Min(emitted[s] - rpos[s], READ_BUF_SIZE) :
        /\ chunk' = [chunk EXCEPT ![s] = Range(rpos[s], n)]
        /\ rpos' = [rpos EXCEPT ![s] = @ + n]
    /\ is_alive' = [is_alive EXCEPT ![s] = FALSE]
    /\ drainPc' = [drainPc EXCEPT ![s] = "append"]
    /\ UNCHANGED <<sessions, regLock, nextId, output, outLock,
                   master, proc, emitted, written, threadVars, historyVars>>
    /\ ret' = NoRet
    /\ UNCHANGED <<execVars, textVars>>

\* session.rs:117, 123: reader.read returns n > 0 bytes: the next bytes of
\* the process's output, at most a buffer full.
DrainReadOk(s) ==
    /\ drainPc[s] = "read"
    /\ \E n \in 1..Min(Avail(s), READ_BUF_SIZE) :
        /\ chunk' = [chunk EXCEPT ![s] = Range(rpos[s], n)]
        /\ rpos' = [rpos EXCEPT ![s] = @ + n]
    /\ drainPc' = [drainPc EXCEPT ![s] = "append"]
    /\ UNCHANGED <<sessions, regLock, nextId, output, outLock, is_alive,
                   master, proc, emitted, written, threadVars, historyVars>>
    /\ ret' = NoRet
    /\ UNCHANGED <<execVars, textVars>>

\* session.rs:118: reader.read returns Ok(0): the process is gone and its
\* output is read to the end.
DrainReadEof(s) ==
    /\ drainPc[s] = "read"
    /\ proc[s] \in {"exited", "hungup"}
    /\ Avail(s) = 0
    /\ drainPc' = [drainPc EXCEPT ![s] = "stopping"]
    /\ UNCHANGED <<sessions, regLock, nextId, output, outLock, is_alive,
                   master, proc, emitted, rpos, chunk, written, threadVars, historyVars>>
    /\ ret' = NoRet
    /\ UNCHANGED <<execVars, textVars>>

\* session.rs:132: reader.read returns an error: the PTY master was released.
DrainReadErr(s) ==
    /\ drainPc[s] = "read"
    /\ master[s] = "released"
    /\ drainPc' = [drainPc EXCEPT ![s] = "stopping"]
    /\ UNCHANGED <<sessions, regLock, nextId, output, outLock, is_alive,
                   master, proc, emitted, rpos, chunk, written, threadVars, historyVars>>
    /\ ret' = NoRet
    /\ UNCHANGED <<execVars, textVars>>

\* A drain thread that reports the end of the stream with its append.
DrainExtendMarksDead(s) ==
    /\ drainPc[s] = "append"
    /\ outLock[s] = Free
    /\ outLock' = [outLock EXCEPT ![s] = ByDrain(s)]
    /\ output' = [output EXCEPT ![s] = @ \o chunk[s]]
    /\ pending' = [pending EXCEPT ![s] = @ \o chunk[s]]
    /\ dirty' = [dirty EXCEPT ![s] = TRUE]
    /\ chunk' = [chunk EXCEPT ![s] = <<>>]
    /\ is_alive' = [is_alive EXCEPT ![s] = FALSE]
    /\ drainPc' = [drainPc EXCEPT ![s] = "trim"]
    /\ UNCHANGED <<sessions, regLock, nextId, master, proc,
                   emitted, rpos, written, threadVars, closed, taken, evicted, final>>
    /\ ret' = NoRet
    /\ UNCHANGED <<execVars, textVars>>

\* session.rs:124-125: lock the buffer and append the chunk.
DrainExtend(s) ==
    /\ drainPc[s] = "append"
    /\ outLock[s] = Free
    /\ outLock' = [outLock EXCEPT ![s] = ByDrain(s)]
    /\ output' = [output EXCEPT ![s] = @ \o chunk[s]]
    /\ pending' = [pending EXCEPT ![s] = @ \o chunk[s]]
    /\ dirty' = [dirty EXCEPT ![s] = TRUE]
    /\ chunk' = [chunk EXCEPT ![s] = <<>>]
    /\ drainPc' = [drainPc EXCEPT ![s] = "trim"]
    /\ UNCHANGED <<sessions, regLock, nextId, is_alive, master, proc,
                   emitted, rpos, written, threadVars, closed, taken, evicted, final>>
    /\ ret' = NoRet
    /\ UNCHANGED <<execVars, textVars>>

\* A trim that keeps the first max bytes and drops the newest.
TrimBack(buf, max) == IF Len(buf) > max THEN SubSeq(buf, 1, max) ELSE buf

\* session.rs:127-130: what is left of a buffer over max bytes long: its front
\* is drained, the last max bytes stay.
TrimFront(buf, max) ==
    IF Len(buf) > max THEN SubSeq(buf, Len(buf) - max + 1, Len(buf)) ELSE buf

\* The elements of a sequence.
Elems(seq) == {seq[i] : i \in 1..Len(seq)}

\* A drain thread that trims the buffer and keeps its lock.
DrainTrimKeepsLock(s) ==
    /\ drainPc[s] = "trim"
    /\ output' = [output EXCEPT ![s] = TrimFront(@, MAX_BUFFER_SIZE)]
    /\ evicted' = [evicted EXCEPT ![s] = @ \cup (Elems(output[s]) \ Elems(output'[s]))]
    /\ drainPc' = [drainPc EXCEPT ![s] = "read"]
    /\ UNCHANGED <<sessions, regLock, nextId, outLock, is_alive, master, proc,
                   emitted, rpos, chunk, written, threadVars, closed, taken, pending, dirty, final>>
    /\ ret' = NoRet
    /\ UNCHANGED <<execVars, textVars>>

\* session.rs:127-131: trim the buffer to MAX_BUFFER_SIZE and unlock it.
DrainTrim(s) ==
    /\ drainPc[s] = "trim"
    /\ output' = [output EXCEPT ![s] = TrimFront(@, MAX_BUFFER_SIZE)]
    /\ evicted' = [evicted EXCEPT ![s] = @ \cup (Elems(output[s]) \ Elems(output'[s]))]
    /\ outLock' = [outLock EXCEPT ![s] = Free]
    /\ drainPc' = [drainPc EXCEPT ![s] = "read"]
    /\ UNCHANGED <<sessions, regLock, nextId, is_alive, master, proc,
                   emitted, rpos, chunk, written, threadVars, closed, taken, pending, dirty, final>>
    /\ ret' = NoRet
    /\ UNCHANGED <<execVars, textVars>>

\* A drain thread that stops and leaves the flag as it was.
StaleFlag == TRUE

\* session.rs:120, 133: the value the drain thread stores in the flag.
DeadFlag == FALSE

\* session.rs:120-121, 133-134: lock the liveness flag, set it false, unlock
\* it, and leave the loop.
DrainSetDead(s) ==
    /\ drainPc[s] = "stopping"
    /\ is_alive' = [is_alive EXCEPT ![s] = DeadFlag]
    /\ drainPc' = [drainPc EXCEPT ![s] = "done"]
    /\ UNCHANGED <<sessions, regLock, nextId, output, outLock,
                   master, proc, emitted, rpos, chunk, written, threadVars, historyVars>>
    /\ ret' = NoRet
    /\ UNCHANGED <<execVars, textVars>>

\* ------------------------------------------------- the process on the slave

\* The shell writes a byte to its terminal.
ProcWrite(s, max) ==
    /\ proc[s] = "running"
    /\ SumOver(emitted) < max
    /\ emitted' = [emitted EXCEPT ![s] = @ + 1]
    /\ UNCHANGED <<sessions, regLock, nextId, output, outLock, is_alive,
                   master, proc, rpos, drainPc, chunk, written, threadVars, historyVars>>
    /\ ret' = NoRet
    /\ UNCHANGED <<execVars, textVars>>

\* The shell exits on its own.
ProcExit(s) ==
    /\ proc[s] = "running"
    /\ master[s] = "open"
    /\ proc' = [proc EXCEPT ![s] = "exited"]
    /\ UNCHANGED <<sessions, regLock, nextId, output, outLock, is_alive,
                   master, emitted, rpos, drainPc, chunk, written, threadVars, historyVars>>
    /\ ret' = NoRet
    /\ UNCHANGED <<execVars, textVars>>

\* session.rs:220: the PTY master was released, which terminates the process
\* attached to the slave.
ProcHangup(s) ==
    /\ proc[s] = "running"
    /\ master[s] = "released"
    /\ proc' = [proc EXCEPT ![s] = "hungup"]
    /\ UNCHANGED <<sessions, regLock, nextId, output, outLock, is_alive,
                   master, emitted, rpos, drainPc, chunk, written, threadVars, historyVars>>
    /\ ret' = NoRet
    /\ UNCHANGED <<execVars, textVars>>

\* ------------------------------------------------------------------ execute

vars == <<sessionVars, threadVars, historyVars, ret, execVars, textVars>>

Timeouts == {0, 1, 2}
ExitCodes == {0, 7}
NoWait == [kind |-> "none"]

\* The character at an offset of the command's output stream.
ExecStream(k) ==
    CASE k % 4 = 1 -> "H"
      [] k % 4 = 2 -> "a"
      [] k % 4 = 3 -> CR
      [] OTHER -> LF

ExecBytesOf(raw) == [i \in 1..Len(raw) |-> ExecStream(raw[i])]

InitExec ==
    /\ exPc = "idle"
    /\ exRet = NoRet
    /\ exTimeout = 0
    /\ exElapsed = 0
    /\ exWait = NoWait
    /\ exChild = "none"
    /\ exCode = 0
    /\ exOrphan = FALSE
    /\ exMaster = "none"
    /\ exEmitted = 0
    /\ exRpos = 0
    /\ exOut = <<>>
    /\ exOutLock = Free
    /\ exDrainPc = "none"
    /\ exChunk = <<>>
    /\ exKilled = FALSE

sessionSide == <<sessionVars, threadVars, historyVars, ret>>

\* session.rs:254-313: the PTY is opened, the command spawned, the slave
\* dropped, the reader thread started, and the wait begins.
ExecStart(timeout) ==
    /\ exPc = "idle"
    /\ exPc' = "poll"
    /\ exTimeout' = timeout
    /\ exElapsed' = 0
    /\ exChild' = "running"
    /\ exMaster' = "open"
    /\ exDrainPc' = "read"
    /\ UNCHANGED <<exRet, exWait, exCode, exOrphan, exEmitted, exRpos, exOut, exOutLock,
                   exChunk, exKilled>>
    /\ UNCHANGED <<sessionSide, textVars>>

\* session.rs:263, 280, 288: opening the PTY, spawning the command or cloning
\* the reader fails.
ExecFail ==
    /\ exPc = "idle"
    /\ exPc' = "returned"
    /\ exRet' = [res |-> "Err", msg |-> <<"PTY error">>]
    /\ UNCHANGED <<exTimeout, exElapsed, exWait, exChild, exCode, exOrphan, exMaster,
                   exEmitted, exRpos, exOut, exOutLock, exDrainPc, exChunk, exKilled>>
    /\ UNCHANGED <<sessionSide, textVars>>

\* A supervisor that looks at the deadline before it polls the child.
WaitPollDeadlineFirst ==
    /\ exPc = "poll"
    /\ IF exElapsed >= exTimeout
       THEN /\ exWait' = [kind |-> "Err", e |-> "Timeout"]
            /\ exPc' = "kill"
       ELSE \/ /\ exChild = "exited"
               /\ exWait' = [kind |-> "Ok", status |-> exCode]
               /\ exPc' = "join"
            \/ /\ exChild = "running"
               /\ exPc' = "sleep"
               /\ UNCHANGED exWait
            \/ /\ exWait' = [kind |-> "Err", e |-> "Wait error"]
               /\ exPc' = "kill"
    /\ UNCHANGED <<exRet, exTimeout, exElapsed, exChild, exCode, exOrphan, exMaster,
                   exEmitted, exRpos, exOut, exOutLock, exDrainPc, exChunk, exKilled>>
    /\ UNCHANGED <<sessionSide, textVars>>

\* session.rs:349-351, 357: child.try_wait(): the exit status of a child that
\* exited, None for a running one, or an error of the wait primitive.
WaitPoll ==
    /\ exPc = "poll"
    /\ \/ /\ exChild = "exited"
          /\ exWait' = [kind |-> "Ok", status |-> exCode]
          /\ exPc' = "join"
       \/ /\ exChild = "running"
          /\ exPc' = "check"
          /\ UNCHANGED exWait
       \/ /\ exWait' = [kind |-> "Err", e |-> "Wait error"]
          /\ exPc' = "kill"
    /\ UNCHANGED <<exRet, exTimeout, exElapsed, exChild, exCode, exOrphan, exMaster,
                   exEmitted, exRpos, exOut, exOutLock, exDrainPc, exChunk, exKilled>>
    /\ UNCHANGED <<sessionSide, textVars>>

\* session.rs:352-354: after a poll that found the child running, the
\* deadline is checked.
WaitCheck ==
    /\ exPc = "check"
    /\ IF exElapsed >= exTimeout
       THEN /\ exWait' = [kind |-> "Err", e |-> "Timeout"]
            /\ exPc' = "kill"
       ELSE /\ exPc' = "sleep"
            /\ UNCHANGED exWait
    /\ UNCHANGED <<exRet, exTimeout, exElapsed, exChild, exCode, exOrphan, exMaster,
                   exEmitted, exRpos, exOut, exOutLock, exDrainPc, exChunk, exKilled>>
    /\ UNCHANGED <<sessionSide, textVars>>

\* session.rs:355: sleep for the poll interval, or longer.
WaitSleep ==
    /\ exPc = "sleep"
    /\ \E d \in 1..2 : exElapsed' = Min(exElapsed + d, MaxTime)
    /\ exPc' = "poll"
    /\ UNCHANGED <<exRet, exTimeout, exWait, exChild, exCode, exOrphan, exMaster,
                   exEmitted, exRpos, exOut, exOutLock, exDrainPc, exChunk, exKilled>>
    /\ UNCHANGED <<sessionSide, textVars>>

\* A kill that does nothing.
KillNothing(child) == child

\* child.kill(): a running child is killed; for a child that exited already
\* the call fails and changes nothing.
KillChild(child) == IF child = "running" THEN "killed" ELSE child

\* session.rs:318: let _ = child.kill(), whatever it returns.
ExecKill ==
    /\ exPc = "kill"
    /\ exChild' = KillChild(exChild)
    /\ exKilled' = TRUE
    /\ exPc' = "fail"
    /\ UNCHANGED <<exRet, exTimeout, exElapsed, exWait, exCode, exOrphan, exMaster,
                   exEmitted, exRpos, exOut, exOutLock, exDrainPc, exChunk>>
    /\ UNCHANGED <<sessionSide, textVars>>

\* session.rs:319: the error execute returns from the Err arm of the wait:
\* "Command timed out after {timeout}s: {e}".
WaitErrMessage(timeout, e) == <<"Command timed out after", timeout, e>>

\* session.rs:319: return the error; the PTY master is dropped with the
\* call's locals and the reader thread is left detached.
ExecReturnErr ==
    /\ exPc = "fail"
    /\ exRet' = [res |-> "Err", msg |-> WaitErrMessage(exTimeout, exWait.e)]
    /\ exMaster' = "released"
    /\ exPc' = "returned"
    /\ UNCHANGED <<exTimeout, exElapsed, exWait, exChild, exCode, exOrphan,
                   exEmitted, exRpos, exOut, exOutLock, exDrainPc, exChunk, exKilled>>
    /\ UNCHANGED <<sessionSide, textVars>>

\* A join that returns at once, whatever the reader thread is doing.
ExecNoJoin ==
    /\ exPc = "join"
    /\ exPc' = "collect"
    /\ UNCHANGED <<exRet, exTimeout, exElapsed, exWait, exChild, exCode, exOrphan, exMaster,
                   exEmitted, exRpos, exOut, exOutLock, exDrainPc, exChunk, exKilled>>
    /\ UNCHANGED <<sessionSide, textVars>>

\* session.rs:324: reader_thread.join() returns once the reader thread ended.
ExecJoin ==
    /\ exPc = "join"
    /\ exDrainPc = "done"
    /\ exPc' = "collect"
    /\ UNCHANGED <<exRet, exTimeout, exElapsed, exWait, exChild, exCode, exOrphan, exMaster,
                   exEmitted, exRpos, exOut, exOutLock, exDrainPc, exChunk, exKilled>>
    /\ UNCHANGED <<sessionSide, textVars>>

\* session.rs:327-336: drop the master, lock the buffer, decode and sanitize
\* it, and return it with the exit code.
ExecFinish ==
    /\ exPc = "collect"
    /\ exOutLock = Free
    /\ exMaster' = "released"
    /\ exRet' = [res |-> "Ok",
                 stdout |-> strip_ansi_escapes(FromUtf8Lossy(ExecBytesOf(exOut))),
                 exit_code |-> exWait.status]
    /\ exPc' = "returned"
    /\ UNCHANGED <<exTimeout, exElapsed, exWait, exChild, exCode, exOrphan,
                   exEmitted, exRpos, exOut, exOutLock, exDrainPc, exChunk, exKilled>>
    /\ UNCHANGED <<sessionSide, textVars>>

ExAvail == exEmitted - exRpos

\* session.rs:296, 298: reader.read returns n > 0 bytes.
ExDrainReadOk ==
    /\ exDrainPc = "read"
    /\ \E n \in 1..Min(ExAvail, READ_BUF_SIZE) :
        /\ exChunk' = Range(exRpos, n)
        /\ exRpos' = exRpos + n
    /\ exDrainPc' = "append"
    /\ UNCHANGED <<exPc, exRet, exTimeout, exElapsed, exWait, exChild, exCode, exOrphan,
                   exMaster, exEmitted, exOut, exOutLock, exKilled>>
    /\ UNCHANGED <<sessionSide, textVars>>

\* Whether a read of the master finds the stream ended: every process that
\* held the slave side is gone, or the master itself was released.
ExStreamEnded ==
    \/ exChild \in {"exited", "killed"} /\ ~exOrphan
    \/ exMaster = "released"

\* session.rs:297, 307: reader.read returns Ok(0) or an error, and the reader
\* thread leaves its loop.
ExDrainReadEnd ==
    /\ exDrainPc = "read"
    /\ ExAvail = 0
    /\ ExStreamEnded
    /\ exDrainPc' = "done"
    /\ UNCHANGED <<exPc, exRet, exTimeout, exElapsed, exWait, exChild, exCode, exOrphan,
                   exMaster, exEmitted, exRpos, exOut, exOutLock, exChunk, exKilled>>
    /\ UNCHANGED <<sessionSide, textVars>>

\* session.rs:299-300: lock the buffer and append the chunk.
ExDrainExtend ==
    /\ exDrainPc = "append"
    /\ exOutLock = Free
    /\ exOutLock' = ByDrain(0)
    /\ exOut' = exOut \o exChunk
    /\ exChunk' = <<>>
    /\ exDrainPc' = "trim"
    /\ UNCHANGED <<exPc, exRet, exTimeout, exElapsed, exWait, exChild, exCode, exOrphan,
                   exMaster, exEmitted, exRpos, exKilled>>
    /\ UNCHANGED <<sessionSide, textVars>>

\* session.rs:302-306: trim the buffer to its cap and unlock it.
ExDrainTrim ==
    /\ exDrainPc = "trim"
    /\ exOut' = TrimFront(exOut, EXEC_BUFFER_SIZE)
    /\ exOutLock' = Free
    /\ exDrainPc' = "read"
    /\ UNCHANGED <<exPc, exRet, exTimeout, exElapsed, exWait, exChild, exCode, exOrphan,
                   exMaster, exEmitted, exRpos, exChunk, exKilled>>
    /\ UNCHANGED <<sessionSide, textVars>>

\* The command writes a byte to its terminal.
ExChildWrite ==
    /\ exChild = "running"
    /\ exEmitted < MaxExecOut
    /\ exEmitted' = exEmitted + 1
    /\ UNCHANGED <<exPc, exRet, exTimeout, exElapsed, exWait, exChild, exCode, exOrphan,
                   exMaster, exRpos, exOut, exOutLock, exDrainPc, exChunk, exKilled>>
    /\ UNCHANGED <<sessionSide, textVars>>

\* The command's shell exits with a code; a process it left behind may keep
\* the slave side of the PTY open.
ExChildExit(code, orphan) ==
    /\ exChild = "running"
    /\ exChild' = "exited"
    /\ exCode' = code
    /\ exOrphan' = orphan
    /\ UNCHANGED <<exPc, exRet, exTimeout, exElapsed, exWait, exMaster,
                   exEmitted, exRpos, exOut, exOutLock, exDrainPc, exChunk, exKilled>>
    /\ UNCHANGED <<sessionSide, textVars>>

\* The process left behind exits too.
ExOrphanExit ==
    /\ exOrphan
    /\ exOrphan' = FALSE
    /\ UNCHANGED <<exPc, exRet, exTimeout, exElapsed, exWait, exChild, exCode, exMaster,
                   exEmitted, exRpos, exOut, exOutLock, exDrainPc, exChunk, exKilled>>
    /\ UNCHANGED <<sessionSide, textVars>>

\* ------------------------------------------------------------ the sanitizer

\* The pieces the texts handed to strip_ansi_escapes are made of: single
\* characters, and two complete CSI sequences (ESC [, bytes that are no
\* letters, one final letter).
Csi == {<<ESC, "[", "1", "m">>, <<ESC, "[", CR, "]", "H">>}
Chars == {ESC, "[", "]", "(", ")", "\\", BEL, CR, LF, "H"}
Tokens == {<<c>> : c \in Chars} \cup Csi

\* The sequences of at most n pieces.
TokenSeqs(n) == UNION {[1..k -> Tokens] : k \in 0..n}

\* The pieces put end to end.
RECURSIVE Flatten(_)
Flatten(toks) == IF toks = <<>> THEN <<>> ELSE Head(toks) \o Flatten(Tail(toks))

\* No text was handed to the sanitizer.
InitText ==
    /\ sanToks = <<>>
    /\ sanIn = <<>>
    /\ sanOut = <<>>
    /\ sanPc = "none"

\* A text is about to be handed to the sanitizer; there are no sessions and
\* no execute call.
InitStrip ==
    /\ sessions = << >>
    /\ regLock = Free
    /\ nextId = 1
    /\ output = [s \in Ids |-> <<>>]
    /\ outLock = [s \in Ids |-> Free]
    /\ is_alive = [s \in Ids |-> TRUE]
    /\ master = [s \in Ids |-> "none"]
    /\ proc = [s \in Ids |-> "none"]
    /\ emitted = [s \in Ids |-> 0]
    /\ rpos = [s \in Ids |-> 0]
    /\ drainPc = [s \in Ids |-> "none"]
    /\ chunk = [s \in Ids |-> <<>>]
    /\ written = [s \in Ids |-> <<>>]
    /\ pc = [t \in Threads |-> "idle"]
    /\ call = [t \in Threads |-> NoCall]
    /\ local = [t \in Threads |-> NoLocal]
    /\ ret = NoRet
    /\ closed = {}
    /\ taken = [s \in Ids |-> <<>>]
    /\ pending = [s \in Ids |-> <<>>]
    /\ evicted = [s \in Ids |-> {}]
    /\ dirty = [s \in Ids |-> FALSE]
    /\ final = {}
    /\ exPc = "idle"
    /\ exRet = NoRet
    /\ exTimeout = 0
    /\ exElapsed = 0
    /\ exWait = NoWait
    /\ exChild = "none"
    /\ exCode = 0
    /\ exOrphan = FALSE
    /\ exMaster = "none"
    /\ exEmitted = 0
    /\ exRpos = 0
    /\ exOut = <<>>
    /\ exOutLock = Free
    /\ exDrainPc = "none"
    /\ exChunk = <<>>
    /\ exKilled = FALSE
    /\ sanToks \in TokenSeqs(MaxToks)
    /\ sanIn = Flatten(sanToks)
    /\ sanOut = <<>>
    /\ sanPc = "ready"

\* session.rs:363-409: strip_ansi_escapes is called on the text.
Sanitize ==
    /\ sanPc = "ready"
    /\ sanOut' = strip_ansi_escapes(sanIn)
    /\ sanPc' = "done"
    /\ UNCHANGED <<sanToks, sanIn>>
    /\ UNCHANGED <<sessionSide, execVars>>

\* ----------------------------------------------------------- specifications

Init == InitSessions /\ InitExec /\ InitText

\* The interactive sessions: caller threads, drain threads and processes.
NextFor(callers, projects, limits) ==
    \/ \E t \in callers, p \in projects : CreateSpawn(t, p)
    \/ \E t \in callers : CreateFail(t)
    \/ \E t \in callers : CreateInsert(t)
    \/ \E t \in callers, id \in Ids, len \in InputLens : SendLookup(t, id, len, MaxWritten)
    \/ \E t \in callers : SendWrite(t)
    \/ \E t \in callers : SendFlush(t)
    \/ \E t \in callers, id \in Ids, max \in limits : ReadLookup(t, id, max)
    \/ \E t \in callers : ReadLockOut(t)
    \/ \E t \in callers : ReadAlive(t)
    \/ \E t \in callers : ReadTake(t)
    \/ \E t \in callers, id \in Ids : CloseSession(t, id)
    \/ \E t \in callers, f \in Filters : ListStart(t, f)
    \/ \E t \in callers : ListAlive(t)
    \/ \E t \in callers : ListDone(t)
    \/ \E s \in Ids : DrainReadOk(s)
    \/ \E s \in Ids : DrainReadEof(s)
    \/ \E s \in Ids : DrainReadErr(s)
    \/ \E s \in Ids : DrainExtend(s)
    \/ \E s \in Ids : DrainTrim(s)
    \/ \E s \in Ids : DrainSetDead(s)
    \/ \E s \in Ids : ProcWrite(s, MaxOut)
    \/ \E s \in Ids : ProcExit(s)
    \/ \E s \in Ids : ProcHangup(s)

\* All callers; the sessions carry no project tag and reads take whole texts.
Next == NextFor(Threads, {NoProject}, {NoLimit})

Spec == Init /\ [][Next]_vars

\* One execute call, its reader thread and its child.
NextExec ==
    \/ \E timeout \in Timeouts : ExecStart(timeout)
    \/ ExecFail
    \/ WaitPoll
    \/ WaitCheck
    \/ WaitSleep
    \/ ExecKill
    \/ ExecReturnErr
    \/ ExecJoin
    \/ ExecFinish
    \/ ExDrainReadOk
    \/ ExDrainReadEnd
    \/ ExDrainExtend
    \/ ExDrainTrim
    \/ ExChildWrite
    \/ \E code \in ExitCodes, orphan \in BOOLEAN : ExChildExit(code, orphan)
    \/ ExOrphanExit

SpecExec == Init /\ [][NextExec]_vars


\* One buffer followed alone: either one interactive session, created, read
\* and drained, or one execute call.
BufCallers == {1}

NextBuf ==
    \/ \E p \in Projects : exPc = "idle" /\ nextId = 1 /\ \E t \in BufCallers : CreateSpawn(t, p)
    \/ \E t \in BufCallers : CreateInsert(t)
    \/ \E t \in BufCallers, id \in Ids, max \in MaxLinesArgs : ReadLookup(t, id, max)
    \/ \E t \in BufCallers : ReadLockOut(t)
    \/ \E t \in BufCallers : ReadAlive(t)
    \/ \E t \in BufCallers : ReadTake(t)
    \/ \E s \in Ids : DrainReadOk(s)
    \/ \E s \in Ids : DrainReadEof(s)
    \/ \E s \in Ids : DrainExtend(s)
    \/ \E s \in Ids : DrainTrim(s)
    \/ \E s \in Ids : DrainSetDead(s)
    \/ \E s \in Ids : ProcWrite(s, MaxBufOut)
    \/ \E s \in Ids : ProcExit(s)
    \/ \E timeout \in Timeouts : nextId = 1 /\ ExecStart(timeout)
    \/ WaitPoll
    \/ WaitCheck
    \/ WaitSleep
    \/ ExecKill
    \/ ExecReturnErr
    \/ ExecJoin
    \/ ExecFinish
    \/ ExDrainReadOk
    \/ ExDrainReadEnd
    \/ ExDrainExtend
    \/ ExDrainTrim
    \/ ExChildWrite
    \/ \E code \in ExitCodes, orphan \in BOOLEAN : ExChildExit(code, orphan)
    \/ ExOrphanExit

SpecBuf == Init /\ [][NextBuf]_vars

\* The sessions with one caller, under the scheduling the program runs with:
\* a thread that can take its next step takes it, a read of the master
\* returns when it can, and the release of the master hangs the process up.
\* A write to the PTY may block for ever, callers need not call, and a
\* process need not write or exit on its own.
LiveCallers == {1}

NextLive == NextFor(LiveCallers, {NoProject}, {NoLimit})

Fairness ==
    /\ \A s \in Ids :
        /\ WF_vars(DrainReadOk(s))
        /\ WF_vars(DrainReadEof(s))
        /\ WF_vars(DrainReadErr(s))
        /\ WF_vars(DrainExtend(s))
        /\ WF_vars(DrainTrim(s))
        /\ WF_vars(DrainSetDead(s))
        /\ WF_vars(ProcHangup(s))
    /\ \A t \in LiveCallers :
        /\ WF_vars(CreateInsert(t))
        /\ WF_vars(SendFlush(t))
        /\ WF_vars(ReadLockOut(t))
        /\ WF_vars(ReadAlive(t))
        /\ WF_vars(ReadTake(t))
        /\ WF_vars(ListAlive(t))
        /\ WF_vars(ListDone(t))

FairSpec == Init /\ [][NextLive]_vars /\ Fairness

\* The execute call under the same scheduling: the calling thread and the
\* reader thread take their steps; the child need not write or exit, and a
\* process it left behind need not exit.
ExecFairness ==
    /\ WF_vars(WaitPoll)
    /\ WF_vars(WaitCheck)
    /\ WF_vars(WaitSleep)
    /\ WF_vars(ExecKill)
    /\ WF_vars(ExecReturnErr)
    /\ WF_vars(ExecJoin)
    /\ WF_vars(ExecFinish)
    /\ WF_vars(ExDrainReadOk)
    /\ WF_vars(ExDrainReadEnd)
    /\ WF_vars(ExDrainExtend)
    /\ WF_vars(ExDrainTrim)

FairExec == Init /\ [][NextExec]_vars /\ ExecFairness

\* The sanitizer alone, applied to one text.
NextStrip == Sanitize

SpecStrip == InitStrip /\ [][NextStrip]_vars


\* The registry: every operation of the SessionManager, by one caller thread,
\* and then one execute call made while that thread is between calls; the
\* sessions carry project tags, and the processes write nothing.
RegCallers == {1}
RegTimeouts == {1}

NextReg ==
    \/ \E t \in RegCallers, p \in Projects : exPc = "idle" /\ CreateSpawn(t, p)
    \/ \E t \in RegCallers : exPc = "idle" /\ CreateFail(t)
    \/ \E t \in RegCallers : exPc = "idle" /\ CreateInsert(t)
    \/ \E t \in RegCallers, id \in Ids, len \in InputLens :
          exPc = "idle" /\ SendLookup(t, id, len, MaxWritten)
    \/ \E t \in RegCallers : exPc = "idle" /\ SendWrite(t)
    \/ \E t \in RegCallers : exPc = "idle" /\ SendFlush(t)
    \/ \E t \in RegCallers, id \in Ids : exPc = "idle" /\ ReadLookup(t, id, NoLimit)
    \/ \E t \in RegCallers : exPc = "idle" /\ ReadLockOut(t)
    \/ \E t \in RegCallers : exPc = "idle" /\ ReadAlive(t)
    \/ \E t \in RegCallers : exPc = "idle" /\ ReadTake(t)
    \/ \E t \in RegCallers, id \in Ids : exPc = "idle" /\ CloseSession(t, id)
    \/ \E t \in RegCallers, f \in Filters : exPc = "idle" /\ ListStart(t, f)
    \/ \E t \in RegCallers : exPc = "idle" /\ ListAlive(t)
    \/ \E t \in RegCallers : exPc = "idle" /\ ListDone(t)
    \/ \E s \in Ids : exPc = "idle" /\ DrainReadEof(s)
    \/ \E s \in Ids : exPc = "idle" /\ DrainReadErr(s)
    \/ \E s \in Ids : exPc = "idle" /\ DrainSetDead(s)
    \/ \E s \in Ids : exPc = "idle" /\ ProcExit(s)
    \/ \E s \in Ids : exPc = "idle" /\ ProcHangup(s)
    \/ \E timeout \in RegTimeouts : (\A t \in RegCallers : pc[t] = "idle") /\ ExecStart(timeout)
    \/ (\A t \in RegCallers : pc[t] = "idle") /\ ExecFail
    \/ WaitPoll
    \/ WaitCheck
    \/ WaitSleep
    \/ ExecKill
    \/ ExecReturnErr
    \/ ExecJoin
    \/ ExecFinish
    \/ ExDrainReadEnd
    \/ \E code \in ExitCodes : ExChildExit(code, FALSE)

SpecReg == Init /\ [][NextReg]_vars

\* The writers: sessions are created and closed and input is sent to them by
\* all callers; the shells may exit; nothing is read.
NextSend ==
    \/ \E t \in Threads : CreateSpawn(t, NoProject)
    \/ \E t \in Threads : CreateInsert(t)
    \/ \E t \in Threads, id \in Ids, len \in InputLens : SendLookup(t, id, len, MaxSent)
    \/ \E t \in Threads : SendWrite(t)
    \/ \E t \in Threads : SendFlush(t)
    \/ \E t \in Threads, id \in Ids : CloseSession(t, id)
    \/ \E s \in Ids : ProcExit(s)

SpecSend == Init /\ [][NextSend]_vars

\* ------------------------------------------------------------------- claims

\* The last n elements of a sequence (all of it when it is shorter).
LastOf(seq, n) == SubSeq(seq, Len(seq) - Min(Len(seq), n) + 1, Len(seq))

StrictlyIncreasing(seq) == \A i, j \in 1..Len(seq) : i < j => seq[i] < seq[j]

\* What a take returns of the bytes appended since the last take: those that
\* were not trimmed away.
NotEvicted(s, seq) == SelectSeq(seq, LAMBDA b : b \notin evicted[s])

\* C1: whenever a caller is writing to or flushing a session's PTY writer
\* (an I/O operation that may block), the registry lock is free.
C1_RegistryLockFreeDuringIO ==
    \A t \in Threads : pc[t] \in {"send_write", "send_flush"} => regLock = Free

\* C2: read_output takes the buffer atomically. The bytes taken by successive
\* reads of a session, put end to end, are in the order the process produced
\* them and hold no byte twice; a read returns every byte appended since the
\* read before it except those trimmed away for capacity; and a read with no
\* append since the read before it returns empty text.
C2_AtomicTake ==
    /\ \A s \in Ids : StrictlyIncreasing(taken[s])
    /\ (ret.op = "read_output" /\ ret.res = "Ok") =>
        /\ ret.raw = NotEvicted(ret.id, ret.pend)
        /\ ~ret.wasDirty => (ret.raw = <<>> /\ ret.text = <<>>)

\* A second read returned bytes, after bytes were trimmed away.
C2_SecondTakeAfterEviction ==
    /\ ret.op = "read_output"
    /\ ret.res = "Ok"
    /\ ret.raw # <<>>
    /\ Len(taken[ret.id]) > Len(ret.raw)
    /\ evicted[ret.id] # {}

\* C3: whenever a buffer's lock is free, the buffer is no longer than its
\* capacity and holds the last min(total, capacity) bytes of everything
\* appended since it was last emptied (the session's buffer with
\* MAX_BUFFER_SIZE, execute's with EXEC_BUFFER_SIZE).
C3_BoundedBuffer ==
    /\ \A s \in Ids : outLock[s] = Free =>
        /\ Len(output[s]) <= MAX_BUFFER_SIZE
        /\ output[s] = LastOf(pending[s], MAX_BUFFER_SIZE)
    /\ exOutLock = Free =>
        /\ Len(exOut) <= EXEC_BUFFER_SIZE
        /\ exOut = LastOf(Range(0, exRpos - Len(exChunk)), EXEC_BUFFER_SIZE)

\* More was appended than the buffer holds, and the buffer is unlocked.
C3_BufferOverflowed ==
    \E s \in Ids : outLock[s] = Free /\ Len(pending[s]) > MAX_BUFFER_SIZE

\* C4: once a session is closed, its PTY master is released, its process
\* gets terminated and its drain thread stops, eventually.
C4_ClosedDrainStops ==
    \A s \in Ids :
        (s \in closed) ~> (master[s] = "released" /\ proc[s] # "running" /\ drainPc[s] = "done")

\* A session was closed while its process ran; the process was hung up and
\* the drain thread stopped.
C4_StoppedByClose ==
    \E s \in closed : proc[s] = "hungup" /\ drainPc[s] = "done" /\ ~is_alive[s]

\* C5: a send_input, read_output or close_session on an id that was closed
\* before, or was never registered, returns NotFound, and nothing is ever
\* written for an id that was never registered.
C5_ClosedIsNotFound ==
    /\ ret.op \in {"send_input", "read_output", "close_session"} =>
        ((ret.wasClosed \/ ret.neverReg) => ret.res = "NotFound")
    /\ \A s \in Ids : s \notin (DOMAIN sessions \cup closed) => written[s] = <<>>

\* A send_input on a closed id returns NotFound while a session created after
\* the close is registered.
C5_NotFoundAfterClose ==
    /\ ret.op = "send_input"
    /\ ret.wasClosed
    /\ ret.res = "NotFound"
    /\ \E s \in DOMAIN sessions : s > ret.id

\* C6: an execute call that has started to wait returns, eventually.
C6_ExecuteReturns == (exPc = "poll") ~> (exPc = "returned")

\* The kind of an error message of execute (session.rs:319): one that starts
\* "Command timed out after" reports a timeout.
ErrorKind(msg) == IF msg[1] = "Command timed out after" THEN "TimedOut" ELSE "Other"

ReturnedTimedOut ==
    exPc = "returned" /\ exRet.res = "Err" /\ ErrorKind(exRet.msg) = "TimedOut"

\* C7: when execute returns a TimedOut error, kill was called and the child
\* is not running; and whenever kill was called, also on a child that had
\* exited already, what execute returns is that TimedOut error.
C7_KilledBeforeTimedOut ==
    /\ ReturnedTimedOut => (exKilled /\ exChild # "running")
    /\ (exPc = "returned" /\ exKilled) => ReturnedTimedOut

\* execute returned TimedOut for a child that the last poll found running
\* and that exited before the kill.
C7_ExitedBeforeKill ==
    ReturnedTimedOut /\ exWait.e = "Timeout" /\ exChild = "exited"

\* C8: execute returns a TimedOut error only when the deadline passed while
\* the child was running; a failure of the wait primitive is no TimedOut.
C8_TimedOutOnlyOnDeadline ==
    ReturnedTimedOut => (exWait.kind = "Err" /\ exWait.e = "Timeout")

\* C9: a session's liveness flag is true when the session is created, and it
\* changes only from true to false, only in the step in which the drain
\* thread leaves its loop after the end of the stream or a read error.
C9_FlagMonotonic ==
    [][\A s \in Ids :
        /\ (drainPc[s] = "none" /\ drainPc'[s] # "none") => is_alive'[s]
        /\ (drainPc[s] # "none" /\ is_alive'[s] # is_alive[s]) =>
            /\ is_alive[s] /\ ~is_alive'[s]
            /\ drainPc[s] = "stopping" /\ drainPc'[s] = "done"]_vars

\* A read_output returned for a session after its flag went false.
C9_ReadAfterFlagFell ==
    ret.op = "read_output" /\ ret.res = "Ok" /\ ~is_alive[ret.id] /\ ret.id \in DOMAIN sessions

\* C10: for a registered session whose drain thread has stopped, read_output
\* succeeds with is_alive = false and returns what is left in the buffer
\* (nothing when there was no append since the last read), and list_sessions
\* lists the session with is_alive = false.
C10_StoppedDrainIsNoError ==
    /\ (ret.op = "read_output" /\ ret.drainDone) =>
        /\ ret.res = "Ok"
        /\ ret.alive = FALSE
        /\ ret.raw = NotEvicted(ret.id, ret.pend)
        /\ ~ret.wasDirty => ret.text = <<>>
    /\ ret.op = "list_sessions" =>
        \A s \in DOMAIN ret.registered \cap ret.stopped :
            Matches(ret.filter, ret.registered[s]) =>
                [session_id |-> s, project |-> ret.registered[s].project,
                 is_alive |-> FALSE] \in ret.list

\* A read_output of a session whose drain thread had stopped returned the
\* output that was still buffered.
C10_TrailingOutputRead ==
    ret.op = "read_output" /\ ret.drainDone /\ ret.res = "Ok" /\ ret.raw # <<>>


\* C11: the set of registry keys changes only in the step in which a
\* create_session returns Ok, which adds exactly one key that was not there,
\* and in the step in which a close_session returns Ok, which removes exactly
\* the named key; every such return changes it so, and every other step (of
\* send_input, read_output, list_sessions, execute, a failed create_session,
\* a failed close_session, a drain thread or a process) leaves it as it is.
C11_RegistryFrame ==
    [][/\ (DOMAIN sessions' # DOMAIN sessions) =>
            \/ /\ ret'.op = "create_session" /\ ret'.res = "Ok"
               /\ ret'.id \notin DOMAIN sessions
               /\ DOMAIN sessions' = DOMAIN sessions \cup {ret'.id}
            \/ /\ ret'.op = "close_session" /\ ret'.res = "Ok"
               /\ ret'.id \in DOMAIN sessions
               /\ DOMAIN sessions' = DOMAIN sessions \ {ret'.id}
       /\ (ret' # ret /\ ret'.op = "create_session" /\ ret'.res = "Ok") =>
            /\ ret'.id \notin DOMAIN sessions
            /\ DOMAIN sessions' = DOMAIN sessions \cup {ret'.id}
       /\ (ret' # ret /\ ret'.op = "close_session" /\ ret'.res = "Ok") =>
            /\ ret'.id \in DOMAIN sessions
            /\ DOMAIN sessions' = DOMAIN sessions \ {ret'.id}
       /\ (ret' # ret /\ ret'.op \in {"create_session", "close_session"}
                      /\ ret'.res # "Ok") =>
            sessions' = sessions]_vars

\* An execute call returned while one session was registered and another
\* had been closed.
C11_ExecuteBesideSessions ==
    /\ exPc = "returned"
    /\ exRet.res = "Ok"
    /\ DOMAIN sessions # {}
    /\ closed # {}


\* C12: execute reads its buffer only after the reader thread has ended, and
\* when it returns Ok, stdout is the sanitized form (here: the carriage
\* returns taken out) of all the bytes the command wrote before it exited,
\* of the last EXEC_BUFFER_SIZE of them when there are more, and exit_code
\* is the exit status of the child.
C12_ExecuteOutputComplete ==
    /\ exPc = "collect" => exDrainPc = "done"
    /\ (exPc = "returned" /\ exRet.res = "Ok") =>
        /\ exDrainPc = "done"
        /\ exRet.stdout =
              SelectSeq(ExecBytesOf(LastOf(Range(0, exEmitted), EXEC_BUFFER_SIZE)),
                        LAMBDA c : c # CR)
        /\ exRet.exit_code = exCode

\* execute returned exit code 7 and the tail of an output longer than its
\* buffer.
C12_ExitSevenWithOutput ==
    /\ exPc = "returned"
    /\ exRet.res = "Ok"
    /\ exRet.exit_code = 7
    /\ exEmitted > EXEC_BUFFER_SIZE
    /\ exRet.stdout # <<>>


\* C13: list_sessions returns exactly one entry for each session registered
\* at the time of the call whose project tag equals the filter's project, or
\* for each registered session when no filter is given, with that session's
\* tag in it; sessions without a tag or with another one, and closed
\* sessions, have no entry.
C13_ListIsRegisteredMatching ==
    ret.op = "list_sessions" =>
        LET want == {s \in DOMAIN ret.registered :
                        ret.filter = NoFilter \/ ret.registered[s].project = ret.filter[1]}
        IN  /\ ret.registered = sessions
            /\ {e.session_id : e \in ret.list} = want
            /\ Cardinality(ret.list) = Cardinality(want)
            /\ \A e \in ret.list :
                /\ e.project = ret.registered[e.session_id].project
                /\ e.session_id \notin closed

\* A list with a project filter returned one of the two registered sessions.
C13_FilteredList ==
    /\ ret.op = "list_sessions"
    /\ ret.filter # NoFilter
    /\ Cardinality(ret.list) = 1
    /\ Cardinality(DOMAIN sessions) = 2


\* A text with its carriage returns taken out.
NoCR(text) == SelectSeq(text, LAMBDA c : c # CR)

\* Whether the ESC at position i of the text starts an OSC sequence: no
\* escape sequence starts before it, and a right bracket follows.
IsOscStart(text, i) ==
    /\ i + 1 <= Len(text)
    /\ text[i] = ESC
    /\ text[i + 1] = "]"
    /\ \A k \in 1..(i - 1) : text[k] # ESC

\* The positions after the introducer at i where a terminator starts: a BEL,
\* or an ESC with a backslash right after it.
OscTerminators(text, i) ==
    {j \in (i + 2)..Len(text) :
        \/ text[j] = BEL
        \/ text[j] = ESC /\ j + 1 <= Len(text) /\ text[j + 1] = "\\"}

\* The position of the last byte of the first terminator, 0 when there is
\* none.
OscEnd(text, i) ==
    LET T == OscTerminators(text, i)
    IN  IF T = {} THEN 0
        ELSE LET j == CHOOSE m \in T : \A n \in T : m <= n
             IN  IF text[j] = BEL THEN j ELSE j + 1

\* C14: of a text with an OSC sequence, ESC ] through the first BEL or ESC \
\* after it, the sanitizer returns what precedes the sequence (its carriage
\* returns taken out) followed by the sanitized form of what follows the
\* terminator, and so no byte of the sequence.
C14_OscDiscarded ==
    sanPc = "done" =>
        \A i \in 1..Len(sanIn) :
            (IsOscStart(sanIn, i) /\ OscEnd(sanIn, i) # 0) =>
                sanOut = NoCR(SubSeq(sanIn, 1, i - 1))
                         \o strip_ansi_escapes(SubSeq(sanIn, OscEnd(sanIn, i) + 1, Len(sanIn)))


\* The pieces that are whole: a character that is no ESC, or a complete CSI
\* sequence; and those of them that are kept: a character that is no CR.
IsWhole(tok) == tok \in Csi \/ (Len(tok) = 1 /\ tok[1] # ESC)
IsKept(tok) == Len(tok) = 1 /\ tok[1] \notin {ESC, CR}

\* C15: of a text made of ordinary characters, carriage returns and complete
\* CSI sequences, the sanitizer returns the ordinary characters, unchanged
\* and in order, and nothing else.
C15_CsiAndCrDeleted ==
    (sanPc = "done" /\ \A k \in 1..Len(sanToks) : IsWhole(sanToks[k])) =>
        sanOut = Flatten(SelectSeq(sanToks, IsKept))

\* The sanitizer returned H and a line feed for a text of a CSI sequence, H,
\* a CSI sequence, a carriage return and a line feed.
C15_ColouredLine ==
    /\ sanPc = "done"
    /\ sanIn = <<ESC, "[", "1", "m", "H", ESC, "[", "1", "m", CR, LF>>
    /\ sanOut = <<"H", LF>>

\* Whether a text is an escape sequence cut off by the end of the text: a
\* lone ESC; ESC [ with no letter after it; ESC ] with no terminator after
\* it; ESC ( or ESC ) with nothing after it.
IsCutOff(text) ==
    /\ text # <<>>
    /\ text[1] = ESC
    /\ \/ Len(text) = 1
       \/ text[2] = "[" /\ \A k \in 3..Len(text) : ~IsAsciiAlphabetic(text[k])
       \/ text[2] = "]" /\ OscTerminators(text, 1) = {}
       \/ text[2] \in {"(", ")"} /\ Len(text) = 2

\* C16: of a text made of whole pieces followed by an escape sequence that
\* the end of the text cuts off, the sanitizer returns what it returns for
\* the whole pieces alone, and no byte of the sequence that was cut off.
C16_CutOffSequenceDropped ==
    sanPc = "done" =>
        \A n \in 0..Len(sanToks) :
            ( /\ \A k \in 1..n : IsWhole(sanToks[k])
              /\ IsCutOff(Flatten(SubSeq(sanToks, n + 1, Len(sanToks)))) ) =>
                sanOut = Flatten(SelectSeq(SubSeq(sanToks, 1, n), IsKept))


\* C17: a read_output with max_lines = n returns the last min(n, k) lines of
\* the sanitized text it took, k being the number of its lines: the whole
\* sanitized text when n >= k, its last n lines joined by line feeds
\* otherwise; and it leaves the buffer empty.
C17_LastLines ==
    (ret.op = "read_output" /\ ret.res = "Ok" /\ ret.max # NoLimit) =>
        LET clean == strip_ansi_escapes(FromUtf8Lossy(BytesOf(ret.raw)))
            lines == StrLines(clean)
            n == ret.max[1]
        IN  /\ n >= Len(lines) => ret.text = clean
            /\ n < Len(lines) => ret.text = JoinLF(LastOf(lines, n))
            /\ output[ret.id] = <<>>


\* The threads that take locks, and the locks: the registry lock and the
\* sessions' buffer locks. (A liveness lock is taken and dropped within one
\* statement, by a thread that asks for no other lock in that statement.)
Agents == {ByThread(t) : t \in Threads} \cup {ByDrain(s) : s \in Ids}
RegistryLock == <<"registry">>
BufferLock(s) == <<"buffer", s>>
NoLock == <<>>

Holder(lock) == IF lock = RegistryLock THEN regLock ELSE outLock[lock[2]]

\* The lock a thread has asked for and not got yet.
Wanted(a) ==
    IF a[1] = "thread"
    THEN CASE pc[a[2]] = "create_insert" -> RegistryLock
           [] pc[a[2]] = "read_lock_out" -> BufferLock(call[a[2]].id)
           [] OTHER -> NoLock
    ELSE IF drainPc[a[2]] = "append" THEN BufferLock(a[2]) ELSE NoLock

\* The thread that holds the lock a thread has asked for (Free when it has
\* asked for none, or for one that is free).
Blocker(a) == IF Wanted(a) = NoLock THEN Free ELSE Holder(Wanted(a))

\* The thread at the end of a chain of n waits that starts at a.
RECURSIVE Follow(_, _)
Follow(a, n) ==
    IF a = Free \/ n = 0 THEN a ELSE Follow(Blocker(a), n - 1)

\* C18: no threads wait for each other's locks in a cycle; a caller that
\* holds a buffer lock holds the registry lock (it took the registry lock
\* first); a caller takes a liveness lock holding the registry lock and, in
\* read_output, the session's buffer lock, never the other way round; and a
\* drain thread holds no buffer lock when it takes the liveness lock, nor
\* ever the registry lock.
C18_NoLockCycle ==
    /\ \A a \in Agents, n \in 1..Cardinality(Agents) : Follow(a, n) # a
    /\ \A s \in Ids, t \in Threads : outLock[s] = ByThread(t) => regLock = ByThread(t)
    /\ \A t \in Threads :
        /\ pc[t] \in {"read_alive", "read_take"} =>
              regLock = ByThread(t) /\ outLock[call[t].id] = ByThread(t)
        /\ pc[t] = "list_iter" =>
              regLock = ByThread(t) /\ \A s \in Ids : outLock[s] # ByThread(t)
    /\ \A s \in Ids :
        /\ drainPc[s] \in {"stopping", "done"} => outLock[s] # ByDrain(s)
        /\ regLock # ByDrain(s)

\* A caller waits for the registry lock held by a caller in read_output,
\* which waits for the buffer lock held by the session's drain thread.
C18_ChainOfWaits ==
    \E t, u \in Threads, s \in Ids :
        /\ Blocker(ByThread(u)) = ByThread(t)
        /\ Blocker(ByThread(t)) = ByDrain(s)


\* C19: once a read_output of a session has returned is_alive = false, the
\* session's drain thread has ended with nothing left to append, so that
\* read took all there will ever be in the buffer, which stays empty; and
\* every later read_output of the session, while it is registered, returns
\* empty text and is_alive = false.
C19_DeadReadIsFinal ==
    /\ \A s \in final :
        /\ drainPc[s] = "done"
        /\ chunk[s] = <<>>
        /\ output[s] = <<>>
        /\ pending[s] = <<>>
        /\ ~is_alive[s]
    /\ (ret.op = "read_output" /\ ret.res = "Ok" /\ ~ret.alive) => ret.id \in final
    /\ (ret.op = "read_output" /\ ret.res = "Ok" /\ ret.wasFinal) =>
        /\ ret.text = <<>>
        /\ ret.raw = <<>>
        /\ ~ret.alive

\* A read_output returned for a session of which an earlier read, one that
\* took output, had reported is_alive = false.
C19_ReadAfterFinalRead ==
    /\ ret.op = "read_output"
    /\ ret.res = "Ok"
    /\ ret.wasFinal
    /\ taken[ret.id] # <<>>


\* The callers inside the write or the flush of a send_input.
Senders == {t \in Threads : pc[t] \in {"send_write", "send_flush"}}

\* C20: at most one send_input is between its lookup and the end of its
\* flush, and it holds the registry lock; the bytes of a call lie next to
\* each other, in order, on the session's PTY writer, those of a call in
\* progress at its end; and the target session of a call in progress is
\* registered and its PTY master open.
C20_SendsSerialized ==
    /\ Cardinality(Senders) <= 1
    /\ \A t \in Senders :
        /\ regLock = ByThread(t)
        /\ call[t].id \in DOMAIN sessions
        /\ master[call[t].id] = "open"
        /\ LastOf(written[call[t].id], local[t].wi) = [k \in 1..local[t].wi |-> <<t, k>>]
    /\ \A s \in Ids : \A i \in 1..Len(written[s]) :
        written[s][i][2] # 1 =>
            (i > 1 /\ written[s][i - 1] = <<written[s][i][1], written[s][i][2] - 1>>)

\* Two callers each sent a two-byte input to one session, which was closed
\* afterwards.
C20_TwoInputsThenClose ==
    \E s \in closed :
        /\ Len(written[s]) = 4
        /\ written[s][1][1] # written[s][3][1]
        /\ written[s][2][2] = 2
        /\ written[s][4][2] = 2


\* C21: the wait starts with a poll; a poll that finds the child exited
\* returns its exit status, whatever the timeout and the time elapsed (unless
\* try_wait itself fails); the deadline is looked at only right after a poll
\* that found the child running; and Timeout is returned only from there,
\* with the elapsed time at or past the timeout.
C21_PollBeforeDeadline ==
    [][/\ (exPc = "idle" /\ exPc' # "idle") => exPc' \in {"poll", "returned"}
       /\ (exPc = "poll" /\ exPc' # "poll") =>
            \/ /\ exChild = "exited"
               /\ exPc' = "join"
               /\ exWait' = [kind |-> "Ok", status |-> exCode]
            \/ /\ exChild = "running"
               /\ exPc' = "check"
               /\ exWait' = exWait
            \/ /\ exPc' = "kill"
               /\ exWait' = [kind |-> "Err", e |-> "Wait error"]
       /\ (exPc' = "check" /\ exPc # "check") => (exPc = "poll" /\ exChild = "running")
       /\ (exWait' # exWait /\ exWait'.kind = "Err" /\ exWait'.e = "Timeout") =>
            (exPc = "check" /\ exElapsed >= exTimeout /\ exPc' = "kill")]_vars

\* execute returned the exit status of a child that a poll found exited
\* after the deadline had passed.
C21_StatusAfterDeadline ==
    /\ exPc = "returned"
    /\ exRet.res = "Ok"
    /\ exRet.exit_code = exCode
    /\ exTimeout > 0
    /\ exElapsed > exTimeout

=============================================================================
